---- MODULE Spec2Model ----
(***************************************************************************)
(* Model of c4d_check_resource_ids.py: the header-line parser chain, the   *)
(* value/name index, the collision report, the suggestion engine, the      *)
(* block report and the file/directory driver of main().                   *)
(*                                                                         *)
(* Text is a sequence of one-character strings, so that strip, find,       *)
(* split and int() are computed character by character.                    *)
(***************************************************************************)
EXTENDS Integers, Sequences, FiniteSets, TLC

VARIABLES pc, args, minVal, checkUnique, actionList, pathKind, listing,
          fileIdx, content, lines, valueNameDict, collisions, uniqueMsg,
          suggestMinVal, suggestedValues, suggestReasons, idBlocks, log, error

vars == <<pc, args, minVal, checkUnique, actionList, pathKind, listing,
          fileIdx, content, lines, valueNameDict, collisions, uniqueMsg,
          suggestMinVal, suggestedValues, suggestReasons, idBlocks, log, error>>

-----------------------------------------------------------------------------
(* Program constants *)

MIN_SUGGEST_IF_EMPTY == 1000

ArgMinvalDefault == 100

-----------------------------------------------------------------------------
(* Bounds of the model *)

MaxLines == 2

MaxFiles == 2

MaxDecls == 3

KeyBelow == 2

KeyAbove == 4

-----------------------------------------------------------------------------
(* Python built-ins used by the program *)

Max(a, b) == IF a >= b THEN a ELSE b

\* seq[i] with Python's index rule: 0-based, a negative index counts from the end
PyIndex(seq, i) == IF i < 0 THEN seq[Len(seq) + i + 1] ELSE seq[i + 1]

\* seq[:n] for 0 <= n
PyPrefix(seq, n) == SubSeq(seq, 1, IF n < Len(seq) THEN n ELSE Len(seq))

SetMin(S) == CHOOSE x \in S : \A y \in S : x <= y

RECURSIVE Sorted(_)
\* sorted(d.keys()): the ascending list of a set of integers
Sorted(S) == IF S = {} THEN << >>
             ELSE LET m == SetMin(S) IN <<m>> \o Sorted(S \ {m})

\* str.find(pat): 0-based position of the first occurrence, -1 if none
Find(s, pat) ==
    LET hits == {i \in 1..(Len(s) - Len(pat) + 1) :
                    SubSeq(s, i, i + Len(pat) - 1) = pat}
    IN IF hits = {} THEN 0 - 1 ELSE SetMin(hits) - 1

RECURSIVE LStrip(_, _)
LStrip(s, chars) == IF s # << >> /\ Head(s) \in chars THEN LStrip(Tail(s), chars) ELSE s

RECURSIVE RStrip(_, _)
RStrip(s, chars) == IF s # << >> /\ s[Len(s)] \in chars
                    THEN RStrip(SubSeq(s, 1, Len(s) - 1), chars) ELSE s

\* str.strip(chars)
Strip(s, chars) == RStrip(LStrip(s, chars), chars)

\* str.replace(c, "")
Remove(s, c) == SelectSeq(s, LAMBDA x : x # c)

RECURSIVE Split(_, _)
\* str.split(sep) for a one-character separator: always at least one field
Split(s, sep) ==
    LET p == Find(s, <<sep>>)
    IN IF p = 0 - 1 THEN <<s>>
       ELSE <<PyPrefix(s, p)>> \o Split(SubSeq(s, p + 2, Len(s)), sep)

DigitChars == <<"0", "1", "2", "3", "4", "5", "6", "7", "8", "9">>

IsDigit(c) == \E d \in 1..10 : DigitChars[d] = c

DigitValue(c) == (CHOOSE d \in 1..10 : DigitChars[d] = c) - 1

RECURSIVE DecimalValue(_)
DecimalValue(ds) == IF ds = << >> THEN 0
                    ELSE 10 * DecimalValue(SubSeq(ds, 1, Len(ds) - 1)) + DigitValue(ds[Len(ds)])

Unsigned(text) == IF text # << >> /\ Head(text) \in {"+", "-"} THEN Tail(text) ELSE text

\* int(text) succeeds: optional sign, then one or more decimal digits
IsInt(text) == /\ Unsigned(text) # << >>
               /\ \A i \in 1..Len(Unsigned(text)) : IsDigit(Unsigned(text)[i])

\* int(text) where it succeeds
int(text) == IF Head(text) = "-" THEN 0 - DecimalValue(Unsigned(text))
             ELSE DecimalValue(Unsigned(text))

-----------------------------------------------------------------------------
(* parse_c4d_resource_header and its helpers *)

strip_line(line) == Remove(Remove(Strip(line, {"\r", "\n"}), "\t"), " ")

filter_line(line) == /\ Len(line) > 3
                     /\ PyIndex(line, 0) # "/"
                     /\ PyIndex(line, 0) # "#"
                     /\ Find(line, <<"=">>) # 0 - 1

\* the line after the inline comment is cut
CutComment(line) == IF Find(line, <<"/", "/">>) # 0 - 1
                    THEN PyPrefix(line, Find(line, <<"/", "/">>)) ELSE line

\* line[-1] of an empty string raises IndexError
CleanRaises(line) == CutComment(line) = << >>

clean_line(line) ==
    LET cut == CutComment(line)
    IN IF PyIndex(cut, 0 - 1) = "," THEN SubSeq(cut, 1, Len(cut) - 1) ELSE cut

\* parse_c4d_resource_header with the "ID minval" filter left out
parse_NoThreshold(file, minval) ==
    LET raw      == file.raw
        stripped == [i \in 1..Len(raw) |-> strip_line(raw[i])]
        filtered == SelectSeq(stripped, filter_line)
        cleaned  == [i \in 1..Len(filtered) |-> clean_line(filtered[i])]
        split    == [i \in 1..Len(cleaned) |-> Split(cleaned[i], "=")]
        keep(line) == Len(line) > 1
    IN IF ~file.readable
       THEN [lines |-> << >>, error |-> "", caught |-> "IOError"]
       ELSE IF \E i \in 1..Len(filtered) : CleanRaises(filtered[i])
       THEN [lines |-> << >>, error |-> "IndexError", caught |-> ""]
       ELSE IF \E i \in 1..Len(split) : Len(split[i]) > 1 /\ ~IsInt(PyIndex(split[i], 1))
       THEN [lines |-> << >>, error |-> "ValueError", caught |-> ""]
       ELSE [lines |-> SelectSeq(split, keep), error |-> "", caught |-> ""]

\* parse_c4d_resource_header skipping a line whose value text is no integer
parse_SkipNotInt(file, minval) ==
    LET raw      == file.raw
        stripped == [i \in 1..Len(raw) |-> strip_line(raw[i])]
        filtered == SelectSeq(stripped, filter_line)
        cleaned  == [i \in 1..Len(filtered) |-> clean_line(filtered[i])]
        split    == [i \in 1..Len(cleaned) |-> Split(cleaned[i], "=")]
        keep(line) == /\ Len(line) > 1
                      /\ IsInt(PyIndex(line, 1))
                      /\ int(PyIndex(line, 1)) >= minval
    IN IF ~file.readable
       THEN [lines |-> << >>, error |-> "", caught |-> "IOError"]
       ELSE IF \E i \in 1..Len(filtered) : CleanRaises(filtered[i])
       THEN [lines |-> << >>, error |-> "IndexError", caught |-> ""]
       ELSE [lines |-> SelectSeq(split, keep), error |-> "", caught |-> ""]

\* the body of the try block; file is [readable, raw], raw a list of raw lines
parse_c4d_resource_header(file, minval) ==
    LET raw      == file.raw
        stripped == [i \in 1..Len(raw) |-> strip_line(raw[i])]
        filtered == SelectSeq(stripped, filter_line)
        cleaned  == [i \in 1..Len(filtered) |-> clean_line(filtered[i])]
        split    == [i \in 1..Len(cleaned) |-> Split(cleaned[i], "=")]
        keep(line) == Len(line) > 1 /\ int(PyIndex(line, 1)) >= minval
    IN IF ~file.readable
       THEN [lines |-> << >>, error |-> "", caught |-> "IOError"]
       ELSE IF \E i \in 1..Len(filtered) : CleanRaises(filtered[i])
       THEN [lines |-> << >>, error |-> "IndexError", caught |-> ""]
       ELSE IF \E i \in 1..Len(split) : Len(split[i]) > 1 /\ ~IsInt(PyIndex(split[i], 1))
       THEN [lines |-> << >>, error |-> "ValueError", caught |-> ""]
       ELSE [lines |-> SelectSeq(split, keep), error |-> "", caught |-> ""]

-----------------------------------------------------------------------------
(* associate_values_to_names *)

EmptyDict == [k \in {} |-> << >>]

\* valueNameDict[idValue] = foundNames
DictPut(d, k, v) == [x \in DOMAIN d \cup {k} |-> IF x = k THEN v ELSE d[x]]

\* the loop body storing [idName] whether or not the value was seen before
AssociateLineOverwrite(d, line) ==
    DictPut(d, int(PyIndex(line, 1)), <<PyIndex(line, 0)>>)

\* one iteration of the loop body
AssociateLine(d, line) ==
    LET idName  == PyIndex(line, 0)
        idValue == int(PyIndex(line, 1))
    IN IF idValue \notin DOMAIN d
       THEN DictPut(d, idValue, <<idName>>)
       ELSE DictPut(d, idValue, Append(d[idValue], idName))

RECURSIVE AssociateLoop(_, _)
AssociateLoop(d, rest) ==
    IF rest = << >> THEN d ELSE AssociateLoop(AssociateLine(d, Head(rest)), Tail(rest))

\* "idName, idValue = line" raises ValueError unless the tuple has two items
associate_values_to_names(ls) ==
    IF \E i \in 1..Len(ls) : Len(ls[i]) # 2
    THEN [dict |-> EmptyDict, error |-> "ValueError"]
    ELSE [dict |-> AssociateLoop(EmptyDict, ls), error |-> ""]

-----------------------------------------------------------------------------
(* check_unique_resource_ids *)

\* the orders in which "for idValue in valueNameDict" may visit the keys
IterOrders(d) ==
    {o \in [1..Cardinality(DOMAIN d) -> DOMAIN d] :
        \A i, j \in 1..Cardinality(DOMAIN d) : i # j => o[i] # o[j]}

\* check_unique_resource_ids testing len(foundNames) > 0
check_unique_AnyName(d, order) ==
    LET found    == SelectSeq(order, LAMBDA idValue : Len(d[idValue]) > 0)
        reported == [i \in 1..Len(found) |-> [idValue |-> found[i], foundNames |-> d[found[i]]]]
    IN [reported |-> reported,
        msg |-> IF found = << >>
                THEN IF Cardinality(DOMAIN d) > 0 THEN "All IDs are unique."
                     ELSE "No IDs defined in header."
                ELSE ""]

\* the report for one iteration order: the collisions logged, the closing message
check_unique_resource_ids(d, order) ==
    LET found    == SelectSeq(order, LAMBDA idValue : Len(d[idValue]) > 1)
        reported == [i \in 1..Len(found) |-> [idValue |-> found[i], foundNames |-> d[found[i]]]]
        nothingFound == found = << >>
    IN [reported |-> reported,
        msg |-> IF nothingFound
                THEN IF Cardinality(DOMAIN d) > 0 THEN "All IDs are unique."
                     ELSE "No IDs defined in header."
                ELSE ""]

-----------------------------------------------------------------------------
(* suggest_new_ids *)

RECURSIVE SuggestLoopFirstFromZero(_, _, _, _)
\* the loop comparing the first value against 0 instead of sortedIdValues[-1]
SuggestLoopFirstFromZero(sortedIdValues, idIndex, largestValue, valueGaps) ==
    IF idIndex >= Len(sortedIdValues)
    THEN [largestValue |-> largestValue, valueGaps |-> valueGaps]
    ELSE LET idValue == PyIndex(sortedIdValues, idIndex)
             prev    == IF idIndex = 0 THEN 0 ELSE PyIndex(sortedIdValues, idIndex - 1)
         IN SuggestLoopFirstFromZero(sortedIdValues, idIndex + 1, Max(largestValue, idValue),
                        IF idValue > prev + 1 THEN Append(valueGaps, prev) ELSE valueGaps)

RECURSIVE SuggestLoop(_, _, _, _)
\* the for loop over enumerate(sortedIdValues), from idIndex on
SuggestLoop(sortedIdValues, idIndex, largestValue, valueGaps) ==
    IF idIndex >= Len(sortedIdValues)
    THEN [largestValue |-> largestValue, valueGaps |-> valueGaps]
    ELSE LET idValue == PyIndex(sortedIdValues, idIndex)
             prev    == PyIndex(sortedIdValues, idIndex - 1)
         IN SuggestLoop(sortedIdValues, idIndex + 1, Max(largestValue, idValue),
                        IF idValue > prev + 1 THEN Append(valueGaps, prev) ELSE valueGaps)

\* get_suggested_value_list suggesting the gap markers themselves
get_suggested_GapMarkers(d, floor) ==
    LET scan == SuggestLoop(Sorted(DOMAIN d), 0, 0, << >>)
    IN scan.valueGaps \o <<Max(scan.largestValue + 1, floor)>>

get_suggested_value_list(d, floor) ==
    LET scan == SuggestLoop(Sorted(DOMAIN d), 0, 0, << >>)
    IN [i \in 1..Len(scan.valueGaps) |-> scan.valueGaps[i] + 1]
       \o <<Max(scan.largestValue + 1, floor)>>

\* the reason logged with each suggestion
SuggestionReasons(d, suggested) ==
    [i \in 1..Len(suggested) |->
        IF Cardinality(DOMAIN d) > 0
        THEN IF i - 1 = Len(suggested) - 1 THEN "after largest ID"
             ELSE "based on gap in ID range"
        ELSE "no IDs defined in header"]

-----------------------------------------------------------------------------
(* show_id_blocks *)

\* the grouping key with the sign slipped
BlockKeySum(i, x) == i + x

\* lambda (i,x): i-x
BlockKey(i, x) == i - x

RECURSIVE GroupBy(_, _, _)
\* itertools.groupby over enumerate(idValues): a new group starts whenever the key
\* differs from the key of the element before; groups holds the values (itemgetter(1))
GroupBy(idValues, i, groups) ==
    IF i >= Len(idValues) THEN groups
    ELSE LET x == PyIndex(idValues, i)
         IN IF i > 0 /\ BlockKey(i, x) = BlockKey(i - 1, PyIndex(idValues, i - 1))
            THEN GroupBy(idValues, i + 1,
                         [groups EXCEPT ![Len(groups)] = Append(@, x)])
            ELSE GroupBy(idValues, i + 1, Append(groups, <<x>>))

find_id_blocks(d) == GroupBy(Sorted(DOMAIN d), 0, << >>)

-----------------------------------------------------------------------------
(* Inputs *)

\* values of --minval: below every value, the default, above MIN_SUGGEST_IF_EMPTY
MinVals == {0 - 10, ArgMinvalDefault, MIN_SUGGEST_IF_EMPTY + 1}

NoArgs == [checkunique |-> FALSE, suggest |-> FALSE, showblocks |-> FALSE]

\* used values around the empty-header floor, and two small ones
Keys == {0 - 2, 0} \cup ((MIN_SUGGEST_IF_EMPTY - 1 - KeyBelow)..(MIN_SUGGEST_IF_EMPTY - 2 + KeyAbove))

-----------------------------------------------------------------------------
(* SpecSuggest: suggest_new_ids and show_id_blocks applied to a ValueIndex,   *)
(* with the floor main passes for the chosen --minval                         *)

InitSuggest ==
    /\ pc = "call"
    /\ args = NoArgs
    /\ minVal \in MinVals
    /\ valueNameDict \in {[k \in S |-> <<"ID">>] : S \in SUBSET {k \in Keys : k >= minVal}}
    /\ suggestMinVal = Max(minVal, MIN_SUGGEST_IF_EMPTY)
    /\ checkUnique = FALSE /\ actionList = << >> /\ pathKind = "none"
    /\ listing = << >> /\ fileIdx = 0 /\ content = [readable |-> TRUE, raw |-> << >>]
    /\ lines = << >> /\ collisions = << >> /\ uniqueMsg = ""
    /\ suggestedValues = << >> /\ suggestReasons = << >> /\ idBlocks = << >>
    /\ log = << >> /\ error = ""

\* suggest_new_ids(valueNameDict, minVal)
SuggestNewIds ==
    /\ pc = "call"
    /\ suggestedValues' = get_suggested_value_list(valueNameDict, suggestMinVal)
    /\ suggestReasons' = SuggestionReasons(valueNameDict, suggestedValues')
    /\ pc' = "suggested"
    /\ UNCHANGED <<args, minVal, checkUnique, actionList, pathKind, listing, fileIdx,
                   content, lines, valueNameDict, collisions, uniqueMsg, suggestMinVal,
                   idBlocks, log, error>>

\* show_id_blocks(valueNameDict)
ShowIdBlocks ==
    /\ pc = "call"
    /\ idBlocks' = find_id_blocks(valueNameDict)
    /\ pc' = "blocks"
    /\ UNCHANGED <<args, minVal, checkUnique, actionList, pathKind, listing, fileIdx,
                   content, lines, valueNameDict, collisions, uniqueMsg, suggestMinVal,
                   suggestedValues, suggestReasons, log, error>>

NextSuggest == SuggestNewIds \/ ShowIdBlocks

SpecSuggest == InitSuggest /\ [][NextSuggest]_vars

-----------------------------------------------------------------------------
(* SpecIndex: associate_values_to_names and check_unique_resource_ids applied *)
(* to the (name, value text) tuples parse_c4d_resource_header returns         *)

DeclNames == {<<"A">>, <<"B">>, <<"C">>}

DeclTexts == {<<"1", "0", "0">>, <<"+", "1", "0", "0">>, <<"1", "0", "5">>}

Decls == {<<n, t>> : n \in DeclNames, t \in DeclTexts}

SeqsUpTo(S, n) == UNION {[1..m -> S] : m \in 0..n}

InitIndex ==
    /\ pc = "parsed"
    /\ args = NoArgs
    /\ minVal = ArgMinvalDefault
    /\ lines \in SeqsUpTo(Decls, MaxDecls)
    /\ valueNameDict = EmptyDict
    /\ suggestMinVal = 0
    /\ checkUnique = FALSE /\ actionList = << >> /\ pathKind = "none"
    /\ listing = << >> /\ fileIdx = 0 /\ content = [readable |-> TRUE, raw |-> << >>]
    /\ collisions = << >> /\ uniqueMsg = ""
    /\ suggestedValues = << >> /\ suggestReasons = << >> /\ idBlocks = << >>
    /\ log = << >> /\ error = ""

\* valueNameDict = associate_values_to_names(lines)
Associate ==
    /\ pc = "parsed"
    /\ valueNameDict' = associate_values_to_names(lines).dict
    /\ error' = associate_values_to_names(lines).error
    /\ pc' = IF error' = "" THEN "indexed" ELSE "crashed"
    /\ UNCHANGED <<args, minVal, checkUnique, actionList, pathKind, listing, fileIdx,
                   content, lines, collisions, uniqueMsg, suggestMinVal,
                   suggestedValues, suggestReasons, idBlocks, log>>

\* check_unique_resource_ids(valueNameDict)
CheckUnique ==
    /\ pc = "indexed"
    /\ \E order \in IterOrders(valueNameDict) :
          /\ collisions' = check_unique_resource_ids(valueNameDict, order).reported
          /\ uniqueMsg' = check_unique_resource_ids(valueNameDict, order).msg
    /\ pc' = "checked"
    /\ UNCHANGED <<args, minVal, checkUnique, actionList, pathKind, listing, fileIdx,
                   content, lines, valueNameDict, suggestMinVal,
                   suggestedValues, suggestReasons, idBlocks, log, error>>

NextIndex == Associate \/ CheckUnique

SpecIndex == InitIndex /\ [][NextIndex]_vars

-----------------------------------------------------------------------------
(* Spec: main() on a path: argument defaults, the path checks, and the        *)
(* per-file pipeline in directory mode and in single-file mode                *)

\* "\tA = 100, // c\r\n"
RawDecl == <<"\t", "A", " ", "=", " ", "1", "0", "0", ",", " ", "/", "/", " ", "c", "\r", "\n">>

\* "B=-5\n"
RawSmall == <<"B", "=", "-", "5", "\n">>

\* "B=1x3\n"
RawNotInt == <<"B", "=", "1", "x", "3", "\n">>

\* "B=103=7\n"
RawThreeFields == <<"B", "=", "1", "0", "3", "=", "7", "\n">>

\* "ABCD//=1\n"
RawOneField == <<"A", "B", "C", "D", "/", "/", "=", "1", "\n">>

\* "#if X=1\n"
RawPreprocessor == <<"#", "i", "f", " ", "X", "=", "1", "\n">>

RawLines == {RawDecl, RawSmall, RawNotInt, RawThreeFields, RawOneField, RawPreprocessor}

\* what open(file) and readlines() may give
Files == {[readable |-> TRUE, raw |-> r] : r \in SeqsUpTo(RawLines, MaxLines)}
         \cup {[readable |-> FALSE, raw |-> << >>]}

\* extensions of the entries of a directory, and of a single path
DirExts == {".h", ".txt"}

Exts == DirExts \cup {".H"}

\* os.path.splitext(filename)[1].lower()
Lower(ext) == IF ext = ".H" THEN ".h" ELSE ext

Entry(fileNo, msg) == [file |-> fileNo, msg |-> msg]

Init ==
    /\ pc = "main"
    /\ args \in [checkunique : BOOLEAN, suggest : BOOLEAN, showblocks : BOOLEAN]
    /\ minVal \in {0 - 10, ArgMinvalDefault}
    /\ pathKind \in {"missing", "dir", "file"}
    /\ listing \in IF pathKind = "dir" THEN SeqsUpTo(DirExts, MaxFiles)
                   ELSE IF pathKind = "file" THEN {<<e>> : e \in Exts}
                   ELSE {<< >>}
    /\ checkUnique = FALSE /\ actionList = << >>
    /\ fileIdx = 0 /\ content = [readable |-> TRUE, raw |-> << >>]
    /\ lines = << >> /\ valueNameDict = EmptyDict
    /\ collisions = << >> /\ uniqueMsg = ""
    /\ suggestMinVal = 0 /\ suggestedValues = << >> /\ suggestReasons = << >>
    /\ idBlocks = << >> /\ log = << >> /\ error = ""

\* main() up to the first file: the defaults, the action list, the path checks
MainStart ==
    /\ pc = "main"
    /\ checkUnique' = (args.checkunique
                        \/ (~args.checkunique /\ ~args.suggest /\ ~args.showblocks))
    /\ actionList' = <<"analyzeHeader">>
                     \o (IF checkUnique' THEN <<"checkUnique">> ELSE << >>)
                     \o (IF args.suggest THEN <<"suggestIDs">> ELSE << >>)
                     \o (IF args.showblocks THEN <<"showBlocks">> ELSE << >>)
    /\ IF pathKind = "missing"
       THEN pc' = "done" /\ log' = <<Entry(0, "Actions"), Entry(0, "does not exist")>>
       ELSE IF pathKind = "dir"
       THEN pc' = "iterate" /\ log' = <<Entry(0, "Actions"), Entry(0, "Iterating")>>
       ELSE IF Lower(listing[1]) # ".h"
       THEN pc' = "done" /\ log' = <<Entry(0, "Actions"), Entry(0, "is not a .h file")>>
       ELSE pc' = "single" /\ log' = <<Entry(0, "Actions")>>
    /\ UNCHANGED <<args, minVal, pathKind, listing, fileIdx, content, lines,
                   valueNameDict, collisions, uniqueMsg, suggestMinVal,
                   suggestedValues, suggestReasons, idBlocks, error>>

\* the pipeline on one header file: parse, associate, the reports
ProcessHeader(file, fileNo, nextPc) ==
    LET parsed == parse_c4d_resource_header(file, minVal)
        assoc  == associate_values_to_names(parsed.lines)
        start  == log \o <<Entry(fileNo, "Parsing")>>
                      \o (IF parsed.caught # "" THEN <<Entry(fileNo, parsed.caught)>> ELSE << >>)
    IN /\ content' = file
       /\ IF parsed.error # ""
          THEN /\ pc' = "crashed"
               /\ error' = parsed.error \o " in parse_c4d_resource_header"
               /\ log' = start
               /\ UNCHANGED <<lines, valueNameDict, collisions, uniqueMsg, suggestMinVal,
                              suggestedValues, suggestReasons, idBlocks>>
          ELSE IF assoc.error # ""
          THEN /\ pc' = "crashed"
               /\ error' = assoc.error \o " in associate_values_to_names"
               /\ lines' = parsed.lines
               /\ log' = start
               /\ UNCHANGED <<valueNameDict, collisions, uniqueMsg, suggestMinVal,
                              suggestedValues, suggestReasons, idBlocks>>
          ELSE /\ pc' = nextPc
               /\ error' = ""
               /\ lines' = parsed.lines
               /\ valueNameDict' = assoc.dict
               /\ \E order \in IterOrders(assoc.dict) :
                     /\ collisions' = check_unique_resource_ids(assoc.dict, order).reported
                     /\ uniqueMsg' = check_unique_resource_ids(assoc.dict, order).msg
               /\ IF args.suggest
                  THEN /\ suggestMinVal' = Max(minVal, MIN_SUGGEST_IF_EMPTY)
                       /\ suggestedValues' = get_suggested_value_list(assoc.dict, suggestMinVal')
                       /\ suggestReasons' = SuggestionReasons(assoc.dict, suggestedValues')
                  ELSE UNCHANGED <<suggestMinVal, suggestedValues, suggestReasons>>
               /\ IF args.showblocks
                  THEN idBlocks' = find_id_blocks(assoc.dict)
                  ELSE UNCHANGED idBlocks
               /\ log' = start \o <<Entry(fileNo, "checkUnique")>>
                         \o (IF args.suggest THEN <<Entry(fileNo, "suggestIDs")>> ELSE << >>)
                         \o (IF args.showblocks THEN <<Entry(fileNo, "showBlocks")>> ELSE << >>)

\* a directory entry whose extension is not .h
SkipEntry ==
    /\ pc = "iterate"
    /\ fileIdx < Len(listing)
    /\ Lower(PyIndex(listing, fileIdx)) # ".h"
    /\ fileIdx' = fileIdx + 1
    /\ UNCHANGED <<pc, args, minVal, checkUnique, actionList, pathKind, listing, content,
                   lines, valueNameDict, collisions, uniqueMsg, suggestMinVal,
                   suggestedValues, suggestReasons, idBlocks, log, error>>

\* the body of the directory loop on a .h file
ProcessEntry ==
    /\ pc = "iterate"
    /\ fileIdx < Len(listing)
    /\ Lower(PyIndex(listing, fileIdx)) = ".h"
    /\ \E file \in Files : ProcessHeader(file, fileIdx + 1, "reported")
    /\ UNCHANGED <<args, minVal, checkUnique, actionList, pathKind, listing, fileIdx>>

\* back to the for statement: the locals of the finished iteration are dead (each is
\* assigned again before it is read), so they are dropped
NextEntry ==
    /\ pc = "reported"
    /\ pc' = "iterate"
    /\ fileIdx' = fileIdx + 1
    /\ content' = [readable |-> TRUE, raw |-> << >>]
    /\ lines' = << >> /\ valueNameDict' = EmptyDict
    /\ collisions' = << >> /\ uniqueMsg' = ""
    /\ suggestMinVal' = 0 /\ suggestedValues' = << >> /\ suggestReasons' = << >>
    /\ idBlocks' = << >>
    /\ UNCHANGED <<args, minVal, checkUnique, actionList, pathKind, listing, log, error>>

\* the directory listing is exhausted
EndOfDir ==
    /\ pc = "iterate"
    /\ fileIdx = Len(listing)
    /\ pc' = "done"
    /\ UNCHANGED <<args, minVal, checkUnique, actionList, pathKind, listing, fileIdx,
                   content, lines, valueNameDict, collisions, uniqueMsg, suggestMinVal,
                   suggestedValues, suggestReasons, idBlocks, log, error>>

\* the single header file of the else branch
SingleFile ==
    /\ pc = "single"
    /\ \E file \in Files : ProcessHeader(file, 1, "done")
    /\ UNCHANGED <<args, minVal, checkUnique, actionList, pathKind, listing, fileIdx>>

Next == MainStart \/ SkipEntry \/ ProcessEntry \/ NextEntry \/ EndOfDir \/ SingleFile

Spec == Init /\ [][Next]_vars

-----------------------------------------------------------------------------
(* Properties of the suggestion engine and the block report (SpecSuggest) *)

UsedValues == DOMAIN valueNameDict

SetMax(S) == CHOOSE x \in S : \A y \in S : y <= x

\* the n-th smallest element of a set of integers
RECURSIVE NthSmallest(_, _)
NthSmallest(S, n) == IF n = 1 THEN SetMin(S) ELSE NthSmallest(S \ {SetMin(S)}, n - 1)

\* the indexes i >= 2 (1-based) of the ascending sort V whose value leaves a hole
\* after its predecessor
GapIndexes(V) == {i \in 2..Len(V) : V[i] > V[i - 1] + 1}

\* the sequence the claim describes: V[i-1]+1 per gap index in ascending order,
\* then max(max(V)+1, F), and [F] alone for empty V
ExpectedSuggestions(S, F) ==
    LET V == Sorted(S)
        G == GapIndexes(V)
    IN [n \in 1..Cardinality(G) |-> V[NthSmallest(G, n) - 1] + 1]
       \o <<IF S = {} THEN F ELSE Max(SetMax(S) + 1, F)>>

\* C1: no suggested value is a used value of the index, and no value is suggested twice
C1_SuggestionsAreFree ==
    pc = "suggested" =>
        /\ \A i \in 1..Len(suggestedValues) : suggestedValues[i] \notin UsedValues
        /\ \A i, j \in 1..Len(suggestedValues) :
              i # j => suggestedValues[i] # suggestedValues[j]

C1_Witness ==
    /\ pc = "suggested"
    /\ Len(suggestedValues) >= 3
    /\ Cardinality(UsedValues) >= 4

\* C2: the suggestions are V[i-1]+1 for each i >= 1 with V[i] > V[i-1]+1, in ascending
\* order of i, then max(max(V)+1, F); the first value gives no gap marker; [F] for empty V
C2_ExactSuggestions ==
    pc = "suggested" =>
        suggestedValues = ExpectedSuggestions(UsedValues, suggestMinVal)

\* the smallest used value is far from the largest, there is a gap, and a
\* negative value is used
C2_Witness ==
    /\ pc = "suggested"
    /\ (0 - 2) \in UsedValues
    /\ SetMax(UsedValues) > MIN_SUGGEST_IF_EMPTY
    /\ Len(suggestedValues) >= 3

\* C8 (as claimed): for a non-empty index the floor plays no part: the last
\* suggestion is the largest used value plus 1
C8_FloorOnlyWhenEmpty ==
    (pc = "suggested" /\ UsedValues # {}) =>
        PyIndex(suggestedValues, 0 - 1) = SetMax(UsedValues) + 1

RECURSIVE Flatten(_)
Flatten(ss) == IF ss = << >> THEN << >> ELSE Head(ss) \o Flatten(Tail(ss))

\* C4: the blocks partition the ascending used values into maximal runs of
\* consecutive integers
C4_BlocksPartition ==
    pc = "blocks" =>
        /\ Flatten(idBlocks) = Sorted(UsedValues)
        /\ \A b \in 1..Len(idBlocks) :
              /\ Len(idBlocks[b]) >= 1
              /\ \A i \in 2..Len(idBlocks[b]) : idBlocks[b][i] = idBlocks[b][i - 1] + 1
        /\ \A b \in 2..Len(idBlocks) :
              idBlocks[b][1] > idBlocks[b - 1][Len(idBlocks[b - 1])] + 1

C4_Witness ==
    /\ pc = "blocks"
    /\ Len(idBlocks) >= 3
    /\ \E b \in 1..Len(idBlocks) : Len(idBlocks[b]) >= 3

-----------------------------------------------------------------------------
(* Properties of the index and the collision report (SpecIndex) *)

Range(f) == {f[i] : i \in DOMAIN f}

\* the values the declarations give
DeclaredValues(ls) == {int(ls[i][2]) : i \in 1..Len(ls)}

\* the names declared with value v, in the order of the declarations
NamesDeclared(ls, v) ==
    LET hits == SelectSeq(ls, LAMBDA l : int(l[2]) = v)
    IN [i \in 1..Len(hits) |-> hits[i][1]]

\* the values under which a name is listed
ValuesOfName(d, name) == {k \in DOMAIN d : name \in Range(d[k])}

IndexMatchesDeclarations ==
    /\ DOMAIN valueNameDict = DeclaredValues(lines)
    /\ \A k \in DOMAIN valueNameDict : valueNameDict[k] = NamesDeclared(lines, k)

\* C3: a value is reported, once and with its name list in first-seen order, iff the
\* list is longer than 1; exactly one of collisions / "All IDs are unique." /
\* "No IDs defined in header." is the outcome; the index is as it was built
C3_CollisionReport ==
    pc = "checked" =>
        /\ \A k \in DOMAIN valueNameDict :
              Len(valueNameDict[k]) > 1 <=> \E i \in 1..Len(collisions) : collisions[i].idValue = k
        /\ \A i \in 1..Len(collisions) :
              /\ collisions[i].idValue \in DOMAIN valueNameDict
              /\ collisions[i].foundNames = NamesDeclared(lines, collisions[i].idValue)
        /\ \A i, j \in 1..Len(collisions) :
              i # j => collisions[i].idValue # collisions[j].idValue
        /\ \/ collisions # << >> /\ uniqueMsg = ""
           \/ /\ collisions = << >> /\ uniqueMsg = "All IDs are unique."
              /\ DOMAIN valueNameDict # {}
              /\ \A k \in DOMAIN valueNameDict : Len(valueNameDict[k]) <= 1
           \/ /\ collisions = << >> /\ uniqueMsg = "No IDs defined in header."
              /\ DOMAIN valueNameDict = {}
        /\ IndexMatchesDeclarations

\* A and B collide on 100 while C alone has 105
C3_Witness ==
    /\ pc = "checked"
    /\ Len(collisions) = 1
    /\ collisions[1] = [idValue |-> 100, foundNames |-> <<<<"A">>, <<"B">>>>]
    /\ 105 \in DOMAIN valueNameDict
    /\ valueNameDict[105] = <<<<"C">>>>

\* C6 (as claimed): every declared name is listed under exactly one value
C6_NameUnderOneValue ==
    pc = "indexed" =>
        \A i \in 1..Len(lines) : Cardinality(ValuesOfName(valueNameDict, lines[i][1])) = 1

\* C6 (amended): every name is listed under exactly the values it was declared
\* with, once per declaration and in declaration order; a name declared with one
\* value only is listed under exactly one value
C6_NamesUnderDeclaredValues ==
    pc = "indexed" =>
        /\ IndexMatchesDeclarations
        /\ \A i \in 1..Len(lines) :
              ValuesOfName(valueNameDict, lines[i][1])
                 = {int(lines[j][2]) : j \in {j \in 1..Len(lines) : lines[j][1] = lines[i][1]}}
        /\ \A i \in 1..Len(lines) :
              (\A j \in 1..Len(lines) :
                  lines[j][1] = lines[i][1] => int(lines[j][2]) = int(lines[i][2]))
              => Cardinality(ValuesOfName(valueNameDict, lines[i][1])) = 1

\* one name declared on two lines with two values, another name sharing a value
C6_Witness ==
    /\ pc = "indexed"
    /\ \E i, j \in 1..Len(lines) :
          lines[i][1] = lines[j][1] /\ int(lines[i][2]) # int(lines[j][2])
    /\ \E k \in DOMAIN valueNameDict : Len(valueNameDict[k]) > 1

-----------------------------------------------------------------------------
(* Properties of the run of main() (Spec) *)

\* the '='-fields of a raw line after strip_line and clean_line
CleanedFields(r) == Split(clean_line(strip_line(r)), "=")

PassesFilter(r) == filter_line(strip_line(r))

\* a filter-passing line with two or more fields whose field 1 is no integer
BadValueLine(r) ==
    /\ PassesFilter(r)
    /\ Len(CleanedFields(r)) >= 2
    /\ ~IsInt(CleanedFields(r)[2])

\* a filter-passing line with three or more fields whose field 1 is an integer >= minVal
ExtraFieldsLine(r) ==
    /\ PassesFilter(r)
    /\ Len(CleanedFields(r)) >= 3
    /\ IsInt(CleanedFields(r)[2])
    /\ int(CleanedFields(r)[2]) >= minVal

\* a filter-passing line NAME=INTEGER (two or more fields, integer field 1)
DeclarationLine(r) ==
    /\ PassesFilter(r)
    /\ Len(CleanedFields(r)) >= 2
    /\ IsInt(CleanedFields(r)[2])

\* a header file has been opened and put through the pipeline
Attempted ==
    \/ pc \in {"reported", "crashed"}
    \/ pc = "done" /\ pathKind = "file" /\ Lower(listing[1]) = ".h"

\* ... and the pipeline ran to its end
Analysed == Attempted /\ pc # "crashed"

\* the number the log gives the file at hand
FileNo == IF pathKind = "dir" THEN fileIdx + 1 ELSE 1

HasEntry(fileNo, msg) == \E i \in 1..Len(log) : log[i] = Entry(fileNo, msg)

C7_ReportsRunWhenSelected ==
    Analysed =>
        /\ HasEntry(FileNo, "checkUnique")
              <=> (args.checkunique \/ (~args.checkunique /\ ~args.suggest /\ ~args.showblocks))
        /\ HasEntry(FileNo, "suggestIDs") <=> args.suggest
        /\ HasEntry(FileNo, "showBlocks") <=> args.showblocks

\* C9 (as claimed): a line with three or more fields and an integer field 1 >= minVal
\* gives the declaration (field 0, int(field 1)) and the analysis ends without error
C9_ExtraFieldsIgnored ==
    (Attempted /\ content.readable /\ \A i \in 1..Len(content.raw) : ~BadValueLine(content.raw[i]))
    => \A i \in 1..Len(content.raw) :
          ExtraFieldsLine(content.raw[i])
          => /\ pc # "crashed"
             /\ int(CleanedFields(content.raw[i])[2]) \in DOMAIN valueNameDict
             /\ CleanedFields(content.raw[i])[1]
                   \in Range(valueNameDict[int(CleanedFields(content.raw[i])[2])])

\* C10: a readable file with a non-integer value line ends the run in a ValueError
\* raised by the parser and not caught as IOError: no report for the file, no later
\* file analysed, the reports of the files before it kept; an unreadable file gives
\* zero declarations, and the directory loop goes on
C10_NotIntIsFatal ==
    /\ (content.readable /\ \E i \in 1..Len(content.raw) : BadValueLine(content.raw[i]))
       => /\ pc = "crashed"
          /\ error = "ValueError in parse_c4d_resource_header"
          /\ HasEntry(FileNo, "Parsing")
          /\ ~HasEntry(FileNo, "IOError")
          /\ ~HasEntry(FileNo, "checkUnique")
          /\ ~HasEntry(FileNo, "suggestIDs")
          /\ ~HasEntry(FileNo, "showBlocks")
          /\ \A i \in 1..Len(log) : log[i].file <= FileNo
          /\ ~ENABLED Next
          /\ pathKind = "dir" =>
                \A j \in 1..fileIdx :
                    Lower(listing[j]) = ".h"
                    => /\ HasEntry(j, "checkUnique")
                       /\ HasEntry(j, "suggestIDs") <=> args.suggest
                       /\ HasEntry(j, "showBlocks") <=> args.showblocks
    /\ (Attempted /\ ~content.readable)
       => /\ pc # "crashed"
          /\ error = ""
          /\ lines = << >>
          /\ DOMAIN valueNameDict = {}
          /\ HasEntry(FileNo, "IOError")
          /\ pc = "reported" => ENABLED NextEntry

\* the first header of a directory has a non-integer value and another header follows
C10_Witness ==
    /\ pc = "crashed"
    /\ pathKind = "dir"
    /\ error = "ValueError in parse_c4d_resource_header"
    /\ \E i \in 1..Len(content.raw) : BadValueLine(content.raw[i])
    /\ fileIdx + 1 < Len(listing)
    /\ Lower(listing[fileIdx + 2]) = ".h"

====
